---- MODULE Spec2Model ----
(***************************************************************************)
(* A model of the inclination-map pipeline: the tabular codec              *)
(* (convert_json_to_csv / read_csv_file), the converter's main with its    *)
(* file-name scan, the placement of create_map, and the ingestion handler  *)
(* do_POST of the server.                                                  *)
(*                                                                         *)
(* Conventions.  A text is a tuple of one-character strings.  A Python     *)
(* float is an integer count of millionths (1e-6), so 0.5 is 500000 and a  *)
(* coordinate 10.00002 is 10000020.  A Python object that may be None or a  *)
(* text is a JSON value record: JNull is None, JStr(s) the text s.         *)
(***************************************************************************)
EXTENDS Integers, Sequences, FiniteSets, TLC

VARIABLES
    \* --- the tabular codec -------------------------------------------------
    cPc,          \* "json": a JSON source waits for convert_json_to_csv;
                  \* "file": a tabular file waits for read_csv_file; "read": read
    jsonDoc,      \* the content of the JSON source
    csvFile,      \* the tabular file: [exists, header, rows]
    decoded,      \* what read_csv_file returned and printed
    \* --- create_map ----------------------------------------------------------
    pPc,          \* "call" before create_map, "done" after
    data,         \* the batch handed to create_map
    mode,         \* "cluster" or "spread"
    base_offset,  \* the float base_offset, in millionths
    markers,      \* the folium.Marker calls, in call order
    polyline,     \* the vertex list of the folium.PolyLine
    created,      \* what create_map returned
    \* --- the converter's main -----------------------------------------------
    mPc,          \* position of the running invocation
    args,         \* its parsed arguments
    csv_file,     \* main's csv_file
    index,        \* main's index (the scan counter)
    series,       \* how many files of the series d.csv, d_000.csv, d_001.csv, ...
                  \* earlier conversions of d.json have left
    fs,           \* names of the other files that exist in the working directory
    fileRows,     \* name -> content, for the tabular files main may read
    jsonSrc,      \* the document in the JSON source file
    artifacts,    \* artifact path -> the invocation that created it (0: none)
    lastSave,     \* the last m.save: [run, path, explicit, replaced]
    exitCode,     \* exit code of the last finished invocation
    runs,         \* invocations started so far
    \* --- the ingestion endpoint ----------------------------------------------
    now,          \* the wall clock, in whole seconds
    store,        \* the files under received_data: path -> [by, kept], the
                  \* request that last wrote it and whether that one succeeded
    served,       \* requests handled so far
    last          \* what the last request did and how it was answered

codecVars  == <<cPc, jsonDoc, csvFile, decoded>>
placeVars  == <<pPc, data, mode, base_offset, markers, polyline, created>>
mainVars   == <<mPc, args, csv_file, index, series, fs, fileRows, jsonSrc, artifacts, lastSave,
               exitCode, runs>>
serverVars == <<now, store, served, last>>
vars       == <<codecVars, placeVars, mainVars, serverVars>>

(***************************************************************************)
(* Texts and Python's conversions between numbers and texts.               *)
(***************************************************************************)
Digits == <<"0", "1", "2", "3", "4", "5", "6", "7", "8", "9">>

DigitChars == {Digits[i] : i \in 1..10}

DigitVal(c) == (CHOOSE i \in 1..10 : Digits[i] = c) - 1

Abs(x) == IF x < 0 THEN -x ELSE x

\* 10 ** n for n = 0..9
Pow10(n) == <<1, 10, 100, 1000, 10000, 100000, 1000000, 10000000, 100000000,
              1000000000>>[n + 1]

\* The scale of the fixed-point floats: six decimal places.
Scale == Pow10(6)

RECURSIVE NatStr(_)
NatStr(n) == IF n < 10 THEN <<Digits[n + 1]>>
             ELSE NatStr(n \div 10) \o <<Digits[(n % 10) + 1]>>

RECURSIVE NatVal(_)
NatVal(s) == IF s = <<>> THEN 0
             ELSE 10 * NatVal(SubSeq(s, 1, Len(s) - 1)) + DigitVal(s[Len(s)])

IsDigits(s) == \A i \in 1..Len(s) : s[i] \in DigitChars

\* str(int)
IntStr(i) == IF i < 0 THEN <<"-">> \o NatStr(-i) ELSE NatStr(i)

RECURSIVE StripZeros(_)
StripZeros(s) == IF Len(s) > 1 /\ s[Len(s)] = "0"
                 THEN StripZeros(SubSeq(s, 1, Len(s) - 1)) ELSE s

ZeroPad(s, w) == [i \in 1..(IF Len(s) >= w THEN 0 ELSE w - Len(s)) |-> "0"] \o s

\* The w lowest decimal digits of n, highest first.
LowDigits(n, w) == [i \in 1..w |-> Digits[((n \div Pow10(w - i)) % 10) + 1]]

\* repr(float) for 0 and for 1e-4 <= |x| < 1e16, where Python prints the
\* shortest decimal that reads back to the same float, without an exponent.
FloatStr(f) ==
    LET a == Abs(f)
        ip == a \div Scale
        fp == a % Scale
    IN (IF f < 0 THEN <<"-">> ELSE <<>>) \o NatStr(ip) \o <<".">>
       \o StripZeros(LowDigits(fp, 6))

(***************************************************************************)
(* JSON values, as json.load returns them.                                 *)
(***************************************************************************)
JInt(i)   == [t |-> "int", i |-> i]
JFloat(f) == [t |-> "float", f |-> f]
JStr(s)   == [t |-> "str", s |-> s]
JBool(b)  == [t |-> "bool", b |-> b]
JNull     == [t |-> "null"]

Unsigned(s) == IF s /= <<>> /\ s[1] \in {"-", "+"} THEN SubSeq(s, 2, Len(s)) ELSE s

Signed(s, v) == IF s /= <<>> /\ s[1] = "-" THEN -v ELSE v

\* int(x): TypeError for None, ValueError for a text that is not an optional
\* sign and at least one digit.
ParseInt(x) ==
    IF x.t /= "str" THEN [err |-> "TypeError"]
    ELSE LET u == Unsigned(x.s)
         IN IF u /= <<>> /\ IsDigits(u)
            THEN [err |-> "ok", val |-> Signed(x.s, NatVal(u))]
            ELSE [err |-> "ValueError"]

DotAt(u) == IF \E i \in 1..Len(u) : u[i] = "."
            THEN CHOOSE i \in 1..Len(u) : u[i] = "." /\ \A j \in 1..(i - 1) : u[j] /= "."
            ELSE Len(u) + 1

\* float(x): TypeError for None, ValueError for a text that is not an optional
\* sign, digits and an optional fraction, with a digit on one side at least.
\* Fraction digits beyond the sixth are below the model's resolution.
ParseFloat(x) ==
    IF x.t /= "str" THEN [err |-> "TypeError"]
    ELSE LET u  == Unsigned(x.s)
             d  == DotAt(u)
             ip == SubSeq(u, 1, d - 1)
             fp == SubSeq(u, d + 1, Len(u))
             f6 == SubSeq(fp \o <<"0", "0", "0", "0", "0", "0">>, 1, 6)
         IN IF IsDigits(ip) /\ IsDigits(fp) /\ (ip /= <<>> \/ fp /= <<>>)
            THEN [err |-> "ok",
                  val |-> Signed(x.s, NatVal(ip) * Scale + NatVal(f6))]
            ELSE [err |-> "ValueError"]

\* What csv.DictWriter writes for a value: str(value), and "" for None.
CellText(v) ==
    CASE v.t = "int"   -> IntStr(v.i)
      [] v.t = "float" -> FloatStr(v.f)
      [] v.t = "str"   -> v.s
      [] v.t = "bool"  -> IF v.b THEN <<"T", "r", "u", "e">> ELSE <<"F", "a", "l", "s", "e">>
      [] v.t = "null"  -> <<>>

\* row.get(key, "")
Get(row, key) == IF key \in DOMAIN row THEN row[key] ELSE JStr(<<>>)

Header == <<"Index", "DateTime", "Latitude", "Longitude", "Inclination(degrees)">>

\* A faulty variant of EncodeRow, latitude and longitude in each other's
\* column: C4_RoundTrip tells it apart.
EncodeRowSwapped(row) ==
    <<CellText(Get(row, "index")), CellText(Get(row, "dateTime")),
      CellText(Get(row, "longitude")), CellText(Get(row, "latitude")),
      CellText(Get(row, "inclination"))>>

\* The dictionary handed to writer.writerow, as the cells of the written line.
EncodeRow(row) ==
    <<CellText(Get(row, "index")), CellText(Get(row, "dateTime")),
      CellText(Get(row, "latitude")), CellText(Get(row, "longitude")),
      CellText(Get(row, "inclination"))>>

\* An element of "data" that is an object (a dict); any other JSON value is a
\* value record, and row.get raises AttributeError on it.
IsObject(row) == "t" \notin DOMAIN row

\* The rows written before a row that is no object raises AttributeError.
RECURSIVE ObjectPrefix(_)
ObjectPrefix(rows) ==
    IF rows = <<>> \/ ~IsObject(rows[1]) THEN <<>>
    ELSE <<rows[1]>> \o ObjectPrefix(Tail(rows))

EncodeRows(rows) == [i \in 1..Len(ObjectPrefix(rows)) |-> EncodeRow(rows[i])]

NoFile == [exists |-> FALSE]

TabularFile(rows) == [exists |-> TRUE, header |-> Header, rows |-> rows]

\* convert_json_to_csv: the tabular file it leaves behind (the one before,
\* when it opens none).  doc.kind: "malformed" (json.load raises), "falsy" ({}, [], 0),
\* "list" (a non-empty array: data.get raises after the header is written),
\* "nodata" (an object without a "data" key), "batch" (an object with "data").
ConvertJsonToCsvFile(doc, before) ==
    CASE doc.kind \in {"malformed", "falsy"} -> before
      [] doc.kind \in {"list", "nodata"}     -> TabularFile(<<>>)
      [] doc.kind = "batch"                  -> TabularFile(EncodeRows(doc.data))

(***************************************************************************)
(* read_csv_file.                                                          *)
(***************************************************************************)
ColumnOf(header, name) ==
    IF \E i \in 1..Len(header) : header[i] = name
    THEN CHOOSE i \in 1..Len(header) : header[i] = name
    ELSE 0

\* row[name] of a csv.DictReader row: KeyError when the header has no such
\* column, None (restval) when the line is too short to have the cell.
Cell(header, line, name) ==
    LET c == ColumnOf(header, name)
    IN IF c = 0 THEN [err |-> "KeyError"]
       ELSE [err |-> "ok", val |-> IF c > Len(line) THEN JNull ELSE JStr(line[c])]

IntCell(header, line, name) ==
    LET c == Cell(header, line, name)
    IN IF c.err /= "ok" THEN c ELSE ParseInt(c.val)

FloatCell(header, line, name) ==
    LET c == Cell(header, line, name)
    IN IF c.err /= "ok" THEN c ELSE ParseFloat(c.val)

\* The dict display of lines 45-51, evaluated left to right: the first
\* conversion that raises decides the outcome.
RowOf(all) ==
    IF \A k \in 1..5 : all[k].err = "ok"
    THEN [err |-> "ok",
          sample |-> [index |-> all[1].val, datetime |-> all[2].val,
                      latitude |-> all[3].val, longitude |-> all[4].val,
                      inclination |-> all[5].val]]
    ELSE [err |-> all[CHOOSE k \in 1..5 :
                         all[k].err /= "ok" /\ \A j \in 1..(k - 1) : all[j].err = "ok"].err]

ParseRow(header, line) ==
    RowOf(<<IntCell(header, line, "Index"), Cell(header, line, "DateTime"),
            FloatCell(header, line, "Latitude"), FloatCell(header, line, "Longitude"),
            FloatCell(header, line, "Inclination(degrees)")>>)

\* The for loop of lines 42-55 over the lines from position k on; csv.DictReader
\* passes over lines without any cell.  acc is [data, warnings].
\* One turn of the loop: the accumulator after the row r = ParseRow(...).
RowStep(acc, r) ==
    CASE r.err = "ok" -> [acc EXCEPT !.data = Append(@, r.sample)]
      [] r.err \in {"ValueError", "KeyError"} -> [acc EXCEPT !.warnings = @ + 1]
      [] OTHER -> [acc EXCEPT !.raised = TRUE]

RECURSIVE ReadRows(_, _, _, _)
ReadRows(header, lines, k, acc) ==
    IF k > Len(lines) \/ acc.raised THEN acc
    ELSE IF lines[k] = <<>> THEN ReadRows(header, lines, k + 1, acc)
    ELSE ReadRows(header, lines, k + 1, RowStep(acc, ParseRow(header, lines[k])))

\* read_csv_file(filepath): none says that it returned None, data is the list
\* it returned otherwise; warnings counts the "Warning: Skipping row" lines
\* printed; error names the "Error:" line printed.
ReadReturn(r) ==
    IF r.raised
    THEN [none |-> TRUE, data |-> <<>>, warnings |-> r.warnings,
          error |-> "Error reading CSV file"]
    ELSE IF r.data = <<>>
    THEN [none |-> TRUE, data |-> <<>>, warnings |-> r.warnings, error |-> "No valid data"]
    ELSE [none |-> FALSE, data |-> r.data, warnings |-> r.warnings, error |-> "none"]

ReadCsvFile(file) ==
    IF ~file.exists
    THEN [none |-> TRUE, data |-> <<>>, warnings |-> 0, error |-> "File not found"]
    ELSE ReadReturn(ReadRows(file.header, file.rows, 1,
                             [data |-> <<>>, warnings |-> 0, raised |-> FALSE]))

(***************************************************************************)
(* The codec as a state machine: a JSON source is converted by             *)
(* convert_json_to_csv, and the tabular file (converted, or supplied as    *)
(* it is) is read by read_csv_file.                                        *)
(***************************************************************************)
\* Longest tabular file (lines) and longest raw batch (entries) enumerated.
MaxRows == 3

MaxBatch == 2

Txt1 == <<"1">>
Txt2 == <<"2">>
TxtA == <<"a">>
TxtB == <<"b">>
TxtX == <<"x">>
Txt1p5 == <<"1", ".", "5">>
Txt2p25 == <<"2", ".", "2", "5">>
Txt0p3 == <<"0", ".", "3">>
TxtNeg0p9 == <<"-", "0", ".", "9">>

\* Lines of a supplied tabular file: two well-formed ones, and lines with a
\* non-integer Index, an empty or non-numeric cell, too few cells (a cell is
\* missing), one cell too many, or no cell at all (a blank line).
LineGood1   == <<Txt1, TxtA, Txt1p5, Txt2p25, Txt0p3>>
LineGood2   == <<Txt2, TxtB, Txt2p25, Txt1p5, TxtNeg0p9>>
LineLong    == <<Txt2, TxtA, Txt1, Txt2, Txt0p3, TxtX>>
LineBadIdx  == <<TxtX, TxtA, Txt1p5, Txt2p25, Txt0p3>>
LineFltIdx  == <<Txt1p5, TxtA, Txt1p5, Txt2p25, Txt0p3>>
LineNoLat   == <<Txt1, TxtA, <<>>, Txt2p25, Txt0p3>>
LineBadLon  == <<Txt1, TxtA, Txt1p5, TxtX, Txt0p3>>
LineNoIncl  == <<Txt1, TxtA, Txt1p5, Txt2p25, <<>>>>
LineShort4  == <<Txt1, TxtA, Txt1p5, Txt2p25>>
LineShort1  == <<TxtX>>
LineBlank   == <<>>

Lines == {LineGood1, LineGood2, LineLong, LineBadIdx, LineFltIdx, LineNoLat,
          LineBadLon, LineNoIncl, LineShort4, LineShort1, LineBlank}

\* The header the codec writes, and one of a file that lacks the last column.
Headers == {Header, SubSeq(Header, 1, 4)}

SeqsUpTo(S, n) == UNION {[1..k -> S] : k \in 0..n}

\* Entries of a raw batch: objects with JSON numbers, with a float or a text
\* for index, with null, text, boolean or absent numeric fields, with a number
\* spelled as a string, with a null dateTime; and an element that is no object.
Entry(i, d, la, lo, inc) ==
    [index |-> i, dateTime |-> d, latitude |-> la, longitude |-> lo, inclination |-> inc]

EntryGood1   == Entry(JInt(1), JStr(TxtA), JFloat(1500000), JFloat(2250000), JFloat(300000))
EntryGood2   == Entry(JInt(2), JStr(TxtB), JInt(10), JInt(-3), JFloat(-900000))
EntryFltIdx  == Entry(JFloat(1000000), JStr(TxtA), JFloat(1500000), JFloat(2250000), JFloat(300000))
EntryStrIdx  == Entry(JStr(Txt2), JStr(TxtA), JFloat(1500000), JFloat(2250000), JFloat(300000))
EntryNullLat == Entry(JInt(1), JStr(TxtA), JNull, JFloat(2250000), JFloat(300000))
EntryTxtLon  == Entry(JInt(1), JStr(TxtA), JFloat(1500000), JStr(TxtX), JFloat(300000))
EntryBoolInc == Entry(JInt(1), JStr(TxtA), JFloat(1500000), JFloat(2250000), JBool(TRUE))
EntryStrLat  == Entry(JInt(1), JStr(TxtA), JStr(Txt1p5), JFloat(2250000), JFloat(300000))
EntryNullDt  == Entry(JInt(1), JNull, JFloat(1500000), JFloat(2250000), JFloat(300000))
EntryNoIncl  == [index |-> JInt(1), dateTime |-> JStr(TxtA), latitude |-> JFloat(1500000),
                 longitude |-> JFloat(2250000)]
EntryNoObject == JInt(5)

Entries == {EntryGood1, EntryGood2, EntryFltIdx, EntryStrIdx, EntryNullLat, EntryTxtLon,
            EntryBoolInc, EntryStrLat, EntryNullDt, EntryNoIncl, EntryNoObject}

JsonDocs == {[kind |-> k] : k \in {"malformed", "falsy", "list", "nodata"}}
            \cup {[kind |-> "batch", data |-> b] : b \in SeqsUpTo(Entries, MaxBatch)}

\* No JSON source: the tabular file was supplied as it is.
NoJson == [kind |-> "none"]

NotRead == [none |-> TRUE, data |-> <<>>, warnings |-> 0, error |-> "not read"]

CodecIdle == cPc = "off" /\ jsonDoc = NoJson /\ csvFile = NoFile /\ decoded = NotRead

CodecInit ==
    /\ decoded = NotRead
    /\ \/ /\ cPc = "json"
          /\ jsonDoc \in JsonDocs
          /\ csvFile = NoFile
       \/ /\ cPc = "file"
          /\ jsonDoc = NoJson
          /\ \E h \in Headers, ls \in SeqsUpTo(Lines, MaxRows) :
                csvFile = [exists |-> TRUE, header |-> h, rows |-> ls]

\* convert_json_to_csv(json_file, csv_file), csv_file not existing before.
ConvertJsonToCsv ==
    /\ cPc = "json"
    /\ csvFile' = ConvertJsonToCsvFile(jsonDoc, csvFile)
    /\ cPc' = "file"
    /\ UNCHANGED <<jsonDoc, decoded>>
    /\ UNCHANGED <<placeVars, mainVars, serverVars>>

\* data = read_csv_file(csv_file)
ReadCsv ==
    /\ cPc = "file"
    /\ decoded' = ReadCsvFile(csvFile)
    /\ cPc' = "read"
    /\ UNCHANGED <<jsonDoc, csvFile>>
    /\ UNCHANGED <<placeVars, mainVars, serverVars>>

CodecNext == ConvertJsonToCsv \/ ReadCsv

(***************************************************************************)
(* What the codec is expected to return, stated on the inputs themselves.  *)
(***************************************************************************)
Sample(i, d, la, lo, inc) ==
    [index |-> i, datetime |-> JStr(d), latitude |-> la, longitude |-> lo, inclination |-> inc]

\* The well-formed lines and the sample each one spells.
GoodLines == {LineGood1, LineGood2, LineLong}

SampleOfLine(line) ==
    CASE line = LineGood1 -> Sample(1, TxtA, 1500000, 2250000, 300000)
      [] line = LineGood2 -> Sample(2, TxtB, 2250000, 1500000, -900000)
      [] line = LineLong  -> Sample(2, TxtA, 1000000, 2000000, 300000)

Among(s, S) == SelectSeq(s, LAMBDA x : x \in S)

\* The rows of a file that are well formed under its header, and the rows
\* that are malformed: a row is a line with at least one cell.
GoodRows(file) == IF file.header = Header THEN Among(file.rows, GoodLines) ELSE <<>>

MalformedRows(file) ==
    IF file.header = Header THEN Among(file.rows, Lines \ (GoodLines \cup {LineBlank}))
    ELSE Among(file.rows, Lines \ {LineBlank})

\* C1: read_csv_file drops each malformed row (an Index that is no integer, a
\* Latitude, Longitude or Inclination(degrees) that is missing or no float)
\* with exactly one warning and keeps reading: it returns exactly the samples
\* of the well-formed rows, in order, and fails only when there is none.
C1_RowTolerant ==
    (cPc = "read" /\ jsonDoc = NoJson) =>
        LET good == GoodRows(csvFile)
        IN /\ decoded.data = [k \in 1..Len(good) |-> SampleOfLine(good[k])]
           /\ decoded.none = (good = <<>>)
           /\ decoded.warnings = Len(MalformedRows(csvFile))

\* The numbers of a JSON value: itself for a JSON number; for the amended law
\* also the number a string spells.  A set with one element, or empty.
SpelledInts == {<<Txt1, 1>>, <<Txt2, 2>>}

SpelledFloats == {<<Txt1, Scale>>, <<Txt2, 2 * Scale>>, <<Txt1p5, 1500000>>,
                  <<Txt2p25, 2250000>>, <<Txt0p3, 300000>>, <<TxtNeg0p9, -900000>>}

JsonInt(v) == IF v.t = "int" THEN {v.i} ELSE {}

JsonNumber(v) == IF v.t = "int" THEN {v.i * Scale} ELSE IF v.t = "float" THEN {v.f} ELSE {}

SpelledBy(v, table) == IF v.t = "str" THEN {p[2] : p \in {q \in table : q[1] = v.s}} ELSE {}

The(S) == CHOOSE x \in S : TRUE

AllObjects(rows) == \A k \in 1..Len(rows) : IsObject(rows[k])

\* A valid entry of a raw batch: an integer index and numeric latitude,
\* longitude and inclination.
ValidEntry(e) ==
    /\ {"index", "latitude", "longitude", "inclination"} \subseteq DOMAIN e
    /\ JsonInt(e.index) /= {}
    /\ \A k \in {"latitude", "longitude", "inclination"} : JsonNumber(e[k]) /= {}

IntLike(v) == JsonInt(v) \cup SpelledBy(v, SpelledInts)

NumberLike(v) == JsonNumber(v) \cup SpelledBy(v, SpelledFloats)

SurvivingEntry(e) ==
    /\ {"index", "latitude", "longitude", "inclination"} \subseteq DOMAIN e
    /\ IntLike(e.index) /= {}
    /\ \A k \in {"latitude", "longitude", "inclination"} : NumberLike(e[k]) /= {}

\* The text a dateTime comes back as: the string itself, empty for null or absent.
DateTimeText(e) ==
    IF "dateTime" \in DOMAIN e /\ e.dateTime.t = "str" THEN e.dateTime.s ELSE <<>>

TrigMilli == <<
    <<<<1000, 0>>>>,
    <<<<1000, 0>>, <<-1000, 0>>>>,
    <<<<1000, 0>>, <<-500, 866>>, <<-500, -866>>>>,
    <<<<1000, 0>>, <<0, 1000>>, <<-1000, 0>>, <<0, -1000>>>>,
    <<<<1000, 0>>, <<309, 951>>, <<-809, 588>>, <<-809, -588>>, <<309, -951>>>>,
    <<<<1000, 0>>, <<500, 866>>, <<-500, 866>>, <<-1000, 0>>, <<-500, -866>>, <<500, -866>>>>,
    <<<<1000, 0>>, <<623, 782>>, <<-223, 975>>, <<-901, 434>>, <<-901, -434>>, <<-223, -975>>, <<623, -782>>>>,
    <<<<1000, 0>>, <<707, 707>>, <<0, 1000>>, <<-707, 707>>, <<-1000, 0>>, <<-707, -707>>, <<0, -1000>>, <<707, -707>>>>,
    <<<<1000, 0>>, <<766, 643>>, <<174, 985>>, <<-500, 866>>, <<-940, 342>>, <<-940, -342>>, <<-500, -866>>, <<174, -985>>, <<766, -643>>>>,
    <<<<1000, 0>>, <<809, 588>>, <<309, 951>>, <<-309, 951>>, <<-809, 588>>, <<-1000, 0>>, <<-809, -588>>, <<-309, -951>>, <<309, -951>>, <<809, -588>>>>,
    <<<<1000, 0>>, <<841, 541>>, <<415, 910>>, <<-142, 990>>, <<-655, 756>>, <<-959, 282>>, <<-959, -282>>, <<-655, -756>>, <<-142, -990>>, <<415, -910>>, <<841, -541>>>>,
    <<<<1000, 0>>, <<866, 500>>, <<500, 866>>, <<0, 1000>>, <<-500, 866>>, <<-866, 500>>, <<-1000, 0>>, <<-866, -500>>, <<-500, -866>>, <<0, -1000>>, <<500, -866>>, <<866, -500>>>> >>

CosMilli(i, n) == TrigMilli[n][i + 1][1]

SinMilli(i, n) == TrigMilli[n][i + 1][2]

\* round(x, 5) of a float in millionths (no enumerated coordinate lies half
\* way between two multiples of 1e-5, where Python's result depends on the
\* float's binary expansion).
Round5(x) == 10 * ((x + 5) \div 10)

GroupKey(entry) == <<Round5(entry.latitude), Round5(entry.longitude)>>

\* The keys of the dict groups in insertion order: each key where it first
\* appears in the batch.
GroupKeys(batch) ==
    LET first == SelectSeq([k \in 1..Len(batch) |-> k],
                           LAMBDA k : \A j \in 1..(k - 1) :
                                         GroupKey(batch[j]) /= GroupKey(batch[k]))
    IN [g \in 1..Len(first) |-> GroupKey(batch[first[g]])]

\* groups[key]: the batch positions of the entries appended under key, in
\* batch order.
GroupMembers(batch, key) ==
    SelectSeq([k \in 1..Len(batch) |-> k], LAMBDA k : GroupKey(batch[k]) = key)

Threshold == 500000

\* Lines 117-123: the colour in cluster mode.
ColorCluster(inclination) ==
    IF Abs(inclination) < Threshold THEN "green"
    ELSE IF inclination < -Threshold THEN "orange"
    ELSE "blue"

\* A faulty variant of ColorSpread, orange from -0.5 on: C3_Colour tells it apart.
ColorSpreadInclusive(inclination) ==
    IF Abs(inclination) < Threshold THEN "green"
    ELSE IF inclination <= -Threshold THEN "orange"
    ELSE "blue"

\* Lines 167-173: the colour in spread mode.
ColorSpread(inclination) ==
    IF Abs(inclination) < Threshold THEN "green"
    ELSE IF inclination < -Threshold THEN "orange"
    ELSE "blue"

\* f"{x:.Nf}" of a float in millionths, N <= 6 (no enumerated value lies half
\* way between two printed values).
FixedStr(x, n) ==
    LET unit == Pow10(6 - n)
        q == (Abs(x) + (unit \div 2)) \div unit
    IN (IF x < 0 THEN <<"-">> ELSE <<>>) \o NatStr(q \div Pow10(n)) \o <<".">>
       \o LowDigits(q % Pow10(n), n)

InclinationSign(inclination) == IF inclination >= 0 THEN <<"+">> ELSE <<>>

\* The popup text, as the values its f-string interpolates.
PopupText(entry, lat, lon) ==
    [index |-> entry.index, datetime |-> entry.datetime,
     latitude |-> FixedStr(lat, 6), longitude |-> FixedStr(lon, 6),
     inclination |-> InclinationSign(entry.inclination) \o FixedStr(entry.inclination, 2)]

TooltipText(entry) ==
    [index |-> entry.index,
     inclination |-> InclinationSign(entry.inclination) \o FixedStr(entry.inclination, 2)]

\* A faulty variant of Marker, the popup printing the displayed position
\* instead of the true one: C12_Bijection tells it apart.
MarkerOfDisplay(k, entry, location, color, layer) ==
    [entry |-> k, location |-> location,
     popup |-> PopupText(entry, location[1] \div 1000, location[2] \div 1000),
     tooltip |-> TooltipText(entry), color |-> color, layer |-> layer]

\* One folium.Marker call; entry is the batch position of the sample it is
\* made for.
Marker(k, entry, location, color, layer) ==
    [entry |-> k, location |-> location, popup |-> PopupText(entry, entry.latitude, entry.longitude),
     tooltip |-> TooltipText(entry), color |-> color, layer |-> layer]

\* Lines 101-131: the markers of cluster mode.
ClusterMarkers(batch) ==
    [k \in 1..Len(batch) |->
        Marker(k, batch[k], <<batch[k].latitude * 1000, batch[k].longitude * 1000>>,
               ColorCluster(batch[k].inclination), "marker_cluster")]

\* A faulty variant of SpreadRadius, one ring for all members: C9_DisplayPosition
\* tells it apart.
SpreadRadiusOneRing(i, offset) == offset

\* Lines 148-152: the position of member i (from 0) of a group of n.
SpreadRadius(i, offset) == offset * (1 + (i \div 8))

SpreadLocation(entry, i, n, offset) ==
    IF n > 1
    THEN <<entry.latitude * 1000 + CosMilli(i, n) * SpreadRadius(i, offset),
           entry.longitude * 1000 + SinMilli(i, n) * SpreadRadius(i, offset)>>
    ELSE <<entry.latitude * 1000, entry.longitude * 1000>>

\* Lines 142-181: the markers of one group.
GroupMarkers(batch, members, offset) ==
    [j \in 1..Len(members) |->
        Marker(members[j], batch[members[j]],
               SpreadLocation(batch[members[j]], j - 1, Len(members), offset),
               ColorSpread(batch[members[j]].inclination), "map")]

RECURSIVE Concat(_)
Concat(seqs) == IF seqs = <<>> THEN <<>> ELSE seqs[1] \o Concat(Tail(seqs))

\* Lines 135-181: the markers of spread mode.
SpreadMarkers(batch, offset) ==
    LET keys == GroupKeys(batch)
    IN Concat([g \in 1..Len(keys) |->
                  GroupMarkers(batch, GroupMembers(batch, keys[g]), offset)])

\* A faulty variant of Coordinates, the vertices at the rounded cell instead of
\* the true position: C8_Path tells it apart.
CoordinatesOfCells(batch) ==
    [k \in 1..Len(batch) |->
        <<Round5(batch[k].latitude) * 1000, Round5(batch[k].longitude) * 1000>>]

\* Line 184: the vertices of the connecting line.
Coordinates(batch) ==
    [k \in 1..Len(batch) |-> <<batch[k].latitude * 1000, batch[k].longitude * 1000>>]

\* Lines 92-181: the markers create_map adds for a batch that is not empty.
Markers(batch, md, offset) ==
    IF md = "cluster" THEN ClusterMarkers(batch) ELSE SpreadMarkers(batch, offset)

\* What create_map returns: False for no data (line 78) and when m.save
\* raises (line 219), True otherwise.
CreateMapReturns(batch, saved) == batch /= <<>> /\ saved

(***************************************************************************)
(* create_map as a state machine: one call on an enumerated batch.         *)
(***************************************************************************)
\* Longest batch enumerated: a group of nine needs nine samples.
MaxSamples == 9

\* Two positions in one 1e-5 cell (1.0, 2.0 and 1.000002, 2.000003) and one in
\* another cell (1.00002, 2.00002).
PlaceP  == <<1000000, 2000000>>
PlacePj == <<1000002, 2000003>>
PlaceQ  == <<1000020, 2000020>>

\* Inclinations on both sides of the two thresholds, and on them.
InclVals == <<300000, -900000, 900000, -500000, 500000, 0, -510000, 490000, -490000>>

\* --offset as argparse accepts it (any float): the default of main, the
\* default of create_map, and zero.
MainDefaultOffset == 20

CreateMapDefaultOffset == 10

Offsets == {MainDefaultOffset, CreateMapDefaultOffset, 0}

\* The batch of n samples with sample k in cell cells[k]; jitter moves the
\* samples of cell "P" at even positions off the common point; phase is where
\* the inclinations start in InclVals; reversed numbers the samples downwards.
BatchOf(cells, jitter, phase, reversed) ==
    [k \in 1..Len(cells) |->
        LET place == IF cells[k] = "Q" THEN PlaceQ
                     ELSE IF jitter /\ k % 2 = 0 THEN PlacePj ELSE PlaceP
        IN [index |-> IF reversed THEN Len(cells) - k ELSE k - 1,
            datetime |-> JStr(NatStr(k)),
            latitude |-> place[1],
            longitude |-> place[2],
            inclination |-> InclVals[((k - 1 + phase) % Len(InclVals)) + 1]]]

Batches ==
    {BatchOf(cells, jitter, phase, reversed) :
        cells \in SeqsUpTo({"P", "Q"}, MaxSamples), jitter \in BOOLEAN,
        phase \in {0, 4}, reversed \in BOOLEAN}

PlaceIdle ==
    /\ pPc = "off" /\ data = <<>> /\ mode = "cluster" /\ base_offset = 0
    /\ markers = <<>> /\ polyline = <<>> /\ created = FALSE

PlaceInit ==
    /\ pPc = "call"
    /\ data \in Batches
    /\ \/ mode = "cluster" /\ base_offset = MainDefaultOffset
       \/ mode = "spread" /\ base_offset \in Offsets
    /\ markers = <<>>
    /\ polyline = <<>>
    /\ created = FALSE

\* create_map(data, output_file, mode=mode, base_offset=base_offset)
CreateMap ==
    /\ pPc = "call"
    /\ markers' = IF data = <<>> THEN <<>> ELSE Markers(data, mode, base_offset)
    /\ polyline' = IF data = <<>> THEN <<>> ELSE Coordinates(data)
    /\ \E saved \in BOOLEAN : created' = CreateMapReturns(data, saved)
    /\ pPc' = "done"
    /\ UNCHANGED <<data, mode, base_offset>>
    /\ UNCHANGED <<codecVars, mainVars, serverVars>>

PlaceNext == CreateMap

(***************************************************************************)
(* Claims about create_map.                                                *)
(***************************************************************************)
MarkerSet == {markers[j] : j \in 1..Len(markers)}

\* C3: the colour of every marker, in cluster and in spread mode, is one of
\* green, orange and blue: green iff |inclination| < 0.5, orange iff
\* inclination < -0.5, blue otherwise; 0.3 is green, -0.9 orange, 0.9 blue,
\* and -0.5 and 0.5 are both blue.
C3_Colour ==
    pPc = "done" =>
        \A m \in MarkerSet :
            LET inc == data[m.entry].inclination
            IN /\ m.color \in {"green", "orange", "blue"}
               /\ (m.color = "green") = (-500000 < inc /\ inc < 500000)
               /\ (m.color = "orange") = (inc < -500000)
               /\ inc = 300000 => m.color = "green"
               /\ inc = -900000 => m.color = "orange"
               /\ inc = 900000 => m.color = "blue"
               /\ inc \in {-500000, 500000} => m.color = "blue"

\* Both modes have classified a sample on each boundary and of each colour.
C3_WitnessIn(md) ==
    /\ pPc = "done"
    /\ mode = md
    /\ {m.color : m \in MarkerSet} = {"green", "orange", "blue"}
    /\ \E m \in MarkerSet : data[m.entry].inclination = -500000 /\ m.color = "blue"
    /\ \E m \in MarkerSet : data[m.entry].inclination = 500000 /\ m.color = "blue"

C3_Witness == C3_WitnessIn("spread")

C3_WitnessCluster == C3_WitnessIn("cluster")

TruePosition(k) == <<data[k].latitude * 1000, data[k].longitude * 1000>>

\* C8: in both modes create_map draws one path whose vertices are the samples'
\* true coordinates, one per sample, in batch order, whatever the mode, the
\* base_offset, the grouping and the offsets of the markers.
C8_Path ==
    (pPc = "done" /\ data /= <<>>) =>
        /\ Len(polyline) = Len(data)
        /\ \A k \in 1..Len(data) : polyline[k] = TruePosition(k)

\* A spread map whose markers are offset and come in another order than the
\* batch, of samples that share a cell without sharing a position.
C8_Witness ==
    /\ pPc = "done"
    /\ mode = "spread"
    /\ Len(data) >= 4
    /\ \E j \in 1..Len(markers) : markers[j].entry /= j
    /\ \E j \in 1..Len(markers) : markers[j].location /= TruePosition(markers[j].entry)
    /\ \E k \in 1..Len(data) : data[k].latitude = PlacePj[1]
    /\ \A k \in 1..Len(polyline) : polyline[k] = TruePosition(k)

\* The samples in the 5-decimal cell of sample k, and the place of k among
\* them in batch order, from 0.
CellMates(k) ==
    {j \in 1..Len(data) : /\ Round5(data[j].latitude) = Round5(data[k].latitude)
                          /\ Round5(data[j].longitude) = Round5(data[k].longitude)}

PlaceInCell(k) == Cardinality({j \in CellMates(k) : j < k})

Shifted(k, i, n, radius) ==
    <<TruePosition(k)[1] + CosMilli(i, n) * radius,
      TruePosition(k)[2] + SinMilli(i, n) * radius>>

\* C9: in cluster mode, and in spread mode for a sample alone in its cell, the
\* marker is at the true position; in spread mode member i of a cell of
\* n > 1 is at the true position shifted by base_offset * (1 + floor(i/8)) in
\* direction 2 pi i / n: by base_offset for i = 0..7, by 2 * base_offset for
\* the ninth of nine.
C9_DisplayPosition ==
    pPc = "done" =>
        \A m \in MarkerSet :
            LET k == m.entry
                n == Cardinality(CellMates(k))
                i == PlaceInCell(k)
            IN /\ (mode = "cluster" \/ n = 1) => m.location = TruePosition(k)
               /\ (mode = "spread" /\ n > 1) =>
                     /\ m.location = Shifted(k, i, n, base_offset * (1 + (i \div 8)))
                     /\ i <= 7 => m.location = Shifted(k, i, n, base_offset)
                     /\ (n = 9 /\ i = 8) => m.location = Shifted(k, 8, 9, 2 * base_offset)

\* A spread map with a cell of nine and a cell of one, the ninth member on
\* the doubled radius.
C9_Witness ==
    /\ pPc = "done"
    /\ mode = "spread"
    /\ base_offset = MainDefaultOffset
    /\ \E m \in MarkerSet :
          /\ Cardinality(CellMates(m.entry)) = 9
          /\ PlaceInCell(m.entry) = 8
          /\ m.location = Shifted(m.entry, 8, 9, 2 * MainDefaultOffset)
          /\ m.location /= TruePosition(m.entry)

\* The other cases of the rule: a sample alone in its cell beside a cell of
\* several, in spread mode.
C9_WitnessAlone ==
    /\ pPc = "done"
    /\ mode = "spread"
    /\ base_offset = MainDefaultOffset
    /\ \E m \in MarkerSet :
          Cardinality(CellMates(m.entry)) = 1 /\ m.location = TruePosition(m.entry)
    /\ \E m \in MarkerSet :
          Cardinality(CellMates(m.entry)) > 1 /\ m.location /= TruePosition(m.entry)

DistanceSquared(a, b) == (a[1] - b[1]) * (a[1] - b[1]) + (a[2] - b[2]) * (a[2] - b[2])

\* C10: in spread mode, for every cell holding 8 samples and every
\* base_offset the converter accepts, the 8 markers are at pairwise distinct
\* positions, each within base_offset of its sample's true position.
C10_SpreadSeparates ==
    (pPc = "done" /\ mode = "spread") =>
        \A m \in MarkerSet :
            Cardinality(CellMates(m.entry)) = 8 =>
                /\ \A o \in MarkerSet :
                      (o.entry \in CellMates(m.entry) /\ o.entry /= m.entry)
                          => o.location /= m.location
                /\ DistanceSquared(m.location, TruePosition(m.entry))
                      <= (base_offset * 1000) * (base_offset * 1000)

\* The groups of spread mode, each one the batch positions of its members.
Groups == [g \in 1..Len(GroupKeys(data)) |-> GroupMembers(data, GroupKeys(data)[g])]

\* The popup and the tooltip of marker m print the values of sample e.
Labelled(m, e) ==
    /\ m.popup.index = e.index
    /\ m.popup.datetime = e.datetime
    /\ m.popup.latitude = FixedStr(e.latitude, 6)
    /\ m.popup.longitude = FixedStr(e.longitude, 6)
    /\ m.popup.inclination = InclinationSign(e.inclination) \o FixedStr(e.inclination, 2)
    /\ m.tooltip.index = e.index
    /\ m.tooltip.inclination = m.popup.inclination

\* The markers made are one per sample of the batch, each labelled with its
\* own sample, and the groups hold every sample once.
OnePerSample ==
    LET groups == Groups
        members == [g \in 1..Len(groups) |-> {groups[g][j] : j \in 1..Len(groups[g])}]
        made == [j \in 1..Len(markers) |-> markers[j].entry]
    IN /\ Len(markers) = Len(data)
       /\ {made[j] : j \in 1..Len(made)} = 1..Len(data)
       /\ \A g \in 1..Len(groups) : Cardinality(members[g]) = Len(groups[g])
       /\ \A k \in 1..Len(data) :
             Cardinality({g \in 1..Len(groups) : k \in members[g]}) = 1
       /\ \A j \in 1..Len(markers) : Labelled(markers[j], data[made[j]])

\* C12: for a batch that is not empty, in either mode, create_map makes
\* exactly one marker per sample (every sample is in exactly one coordinate
\* group and placed once), drops and duplicates none, leaves the batch as it
\* was, and labels each marker with its own sample's index, datetime, true
\* coordinates and inclination wherever the marker is placed.
C12_Bijection ==
    /\ []((pPc = "done" /\ data /= <<>>) => OnePerSample)
    /\ [][data' = data]_vars

\* A spread map of several cells whose markers are offset and come in another
\* order than the batch, each one labelled with its sample's true position.
C12_Witness ==
    /\ pPc = "done"
    /\ mode = "spread"
    /\ Len(data) >= 4
    /\ Len(markers) = Len(data)
    /\ Len(GroupKeys(data)) = 2
    /\ \E j \in 1..Len(markers) :
          /\ markers[j].entry /= j
          /\ markers[j].location /= TruePosition(markers[j].entry)
          /\ markers[j].popup.latitude = FixedStr(data[markers[j].entry].latitude, 6)

(***************************************************************************)
(* The converter's main.  A file name is the characters of its root        *)
(* followed by its extension as one element, so os.path.splitext takes the *)
(* last element off.                                                       *)
(***************************************************************************)
Root(name) == SubSeq(name, 1, Len(name) - 1)

Suffix(name) == name[Len(name)]

Lower(ext) == IF ext = ".JSON" THEN ".json" ELSE ext

\* f"{index:03d}"
Pad3(n) == ZeroPad(NatStr(n), 3)

\* Line 281: the first name the scan tries.
FirstCsvName(in_file) == Root(in_file) \o <<".csv">>

\* Lines 284-287: the name the scan tries next.
NextCsvName(name, idx) ==
    IF idx = 0
    THEN Root(name) \o <<"_">> \o Pad3(idx) \o <<".csv">>
    ELSE SubSeq(Root(name), 1, Len(Root(name)) - 4) \o <<"_">> \o Pad3(idx) \o <<".csv">>

\* Lines 296-306: the exit code once csv_file is settled; saved says whether
\* m.save wrote the artifact.
ExitAfter(read, saved) ==
    IF read.none THEN 1
    ELSE IF CreateMapReturns(read.data, saved) THEN 0 ELSE 1

ConverterExit(file, saved) == ExitAfter(ReadCsvFile(file), saved)

JsonSource == <<"d", ".json">>

CsvSource == <<"c", ".csv">>

Collected == <<"collected_data_1", ".csv">>

MissingSource == <<"m", ".csv">>

DefaultOutput == "created_maps/gps_map.html"

GivenOutput == "out.html"

\* Most invocations of one model run, and most files of the series d.csv,
\* d_000.csv, d_001.csv, ... that exist beforehand.
MaxRuns == 2

MaxExisting == 1001

\* File number k of the series left by earlier conversions of d.json.
SeriesName(k) ==
    IF k = 0 THEN <<"d", ".csv">> ELSE <<"d", "_">> \o Pad3(k - 1) \o <<".csv">>

\* The series lengths enumerated: none, one, two, and MaxExisting.
SeriesLengths == {n \in 0..MaxExisting : n <= 2 \/ n = MaxExisting}

\* name is one of the first n files of the series: name = SeriesName(k) for
\* some k < n.
InSeries(name, n) ==
    \/ n >= 1 /\ name = SeriesName(0)
    \/ /\ Len(name) >= 6
       /\ LET ds == SubSeq(name, 3, Len(name) - 1)
          IN /\ IsDigits(ds)
             /\ NatVal(ds) + 1 < n
             /\ name = SeriesName(NatVal(ds) + 1)

\* pathlib.Path(name).exists()
Exists(name) == name \in fs \/ InSeries(name, series)

\* Supplied tabular files: a good one, one of malformed rows only, one with a
\* good row and a row lacking cells.
SourceFiles ==
    {[exists |-> TRUE, header |-> Header, rows |-> ls] :
        ls \in {<<LineGood1, LineGood2>>, <<LineBadIdx>>, <<LineGood1, LineShort4>>}}

SourceDocs ==
    {[kind |-> "malformed"], [kind |-> "falsy"],
     [kind |-> "batch", data |-> <<EntryGood1, EntryNullLat>>],
     [kind |-> "batch", data |-> <<EntryNullLat>>]}

NoArgs == [in_file |-> <<>>, output_file |-> "", explicit |-> FALSE, mode |-> "spread",
           offset |-> 0]

NoSave == [run |-> 0, path |-> "", explicit |-> FALSE, replaced |-> 0]

MainIdle ==
    /\ mPc = "off" /\ args = NoArgs /\ csv_file = <<>> /\ index = 0 /\ series = 0
    /\ fs = {}
    /\ fileRows = <<>> /\ jsonSrc = [kind |-> "falsy"]
    /\ artifacts = [p \in {DefaultOutput, GivenOutput} |-> 0]
    /\ lastSave = NoSave /\ exitCode = 0 /\ runs = 0

MainInit ==
    /\ mPc = "shell"
    /\ args = NoArgs
    /\ csv_file = <<>>
    /\ index = 0
    /\ jsonSrc \in SourceDocs
    /\ series \in SeriesLengths
    /\ \E src \in SourceFiles, collected \in BOOLEAN :
          /\ fileRows = [f \in {CsvSource} \cup (IF collected THEN {Collected} ELSE {}) |-> src]
          /\ fs = {JsonSource, CsvSource} \cup (IF collected THEN {Collected} ELSE {})
    /\ artifacts = [p \in {DefaultOutput, GivenOutput} |-> 0]
    /\ lastSave = NoSave
    /\ exitCode = 0
    /\ runs = 0

\* sorted(Path(".").glob("collected_data_*.csv"), reverse=True)
CollectedFiles == fs \cap {Collected}

\* Lines 259-291: parse the arguments and settle in_file and output_file.
\* parsed is FALSE when argparse rejects the command line (it exits with 2).
MainStart(in_arg, out_arg, md, offset, parsed) ==
    /\ mPc = "shell"
    /\ runs < MaxRuns
    /\ runs' = runs + 1
    /\ index' = 0
    /\ LET in_file == IF in_arg /= <<>> THEN in_arg
                      ELSE IF CollectedFiles /= {} THEN Collected ELSE <<>>
           output_file == IF out_arg /= "" THEN out_arg ELSE DefaultOutput
           explicit == out_arg /= ""
       IN /\ args' = [in_file |-> in_file, output_file |-> output_file,
                      explicit |-> explicit, mode |-> md, offset |-> offset]
          /\ IF ~parsed
             THEN mPc' = "shell" /\ exitCode' = 2 /\ csv_file' = <<>>
             ELSE IF in_file = <<>>
             THEN mPc' = "shell" /\ exitCode' = 1 /\ csv_file' = <<>>
             ELSE IF Lower(Suffix(in_file)) = ".json"
             THEN mPc' = "scan" /\ exitCode' = exitCode /\ csv_file' = FirstCsvName(in_file)
             ELSE mPc' = "read" /\ exitCode' = exitCode /\ csv_file' = in_file
    /\ UNCHANGED <<series, fs, fileRows, jsonSrc, artifacts, lastSave>>
    /\ UNCHANGED <<codecVars, placeVars, serverVars>>

\* Lines 283-288: one turn of the while loop.
ScanStep ==
    /\ mPc = "scan"
    /\ Exists(csv_file)
    /\ csv_file' = NextCsvName(csv_file, index)
    /\ index' = index + 1
    /\ UNCHANGED <<mPc, args, series, fs, fileRows, jsonSrc, artifacts, lastSave, exitCode, runs>>
    /\ UNCHANGED <<codecVars, placeVars, serverVars>>

\* Line 289: the loop has ended; convert_json_to_csv(json_file, csv_file).
Convert ==
    /\ mPc = "scan"
    /\ ~Exists(csv_file)
    /\ LET written == ConvertJsonToCsvFile(IF Exists(args.in_file) THEN jsonSrc
                                           ELSE [kind |-> "malformed"], NoFile)
       IN IF written.exists
          THEN /\ fs' = fs \cup {csv_file}
               /\ fileRows' = [f \in DOMAIN fileRows \cup {csv_file} |->
                                  IF f = csv_file THEN written ELSE fileRows[f]]
          ELSE UNCHANGED <<fs, fileRows>>
    /\ mPc' = "read"
    /\ UNCHANGED <<args, csv_file, index, series, jsonSrc, artifacts, lastSave, exitCode, runs>>
    /\ UNCHANGED <<codecVars, placeVars, serverVars>>

\* Lines 293-306: read csv_file, create the map, exit.
ReadAndRender ==
    /\ mPc = "read"
    /\ \E saved \in BOOLEAN :
          LET file == IF csv_file \in DOMAIN fileRows THEN fileRows[csv_file] ELSE NoFile
              code == ConverterExit(file, saved)
          IN /\ exitCode' = code
             /\ IF code = 0
                THEN /\ lastSave' = [run |-> runs, path |-> args.output_file,
                                     explicit |-> args.explicit,
                                     replaced |-> artifacts[args.output_file]]
                     /\ artifacts' = [artifacts EXCEPT ![args.output_file] =
                                         IF @ = 0 THEN runs ELSE @]
                ELSE UNCHANGED <<artifacts, lastSave>>
    /\ mPc' = "shell"
    /\ UNCHANGED <<args, csv_file, index, series, fs, fileRows, jsonSrc, runs>>
    /\ UNCHANGED <<codecVars, placeVars, serverVars>>

MainNext ==
    \/ \E in_arg \in {<<>>, JsonSource, CsvSource, MissingSource},
          out_arg \in {"", GivenOutput}, parsed \in BOOLEAN :
          MainStart(in_arg, out_arg, "spread", MainDefaultOffset, parsed)
    \/ ScanStep
    \/ Convert
    \/ ReadAndRender

(***************************************************************************)
(* Claims about main.                                                      *)
(***************************************************************************)
\* name is base.csv, or base, an underscore, three digits and .csv.
SuffixForm(name, base) ==
    \/ name = base \o <<".csv">>
    \/ /\ Len(name) = Len(base) + 5
       /\ SubSeq(name, 1, Len(base)) = base
       /\ name[Len(base) + 1] = "_"
       /\ IsDigits(SubSeq(name, Len(base) + 2, Len(base) + 4))
       /\ name[Len(name)] = ".csv"

\* C2: at every turn of the scan for <base>.json the name tried is the next of
\* <base>.csv, <base>_000.csv, <base>_001.csv, ...: <base>.csv or <base>_NNN.csv
\* with one suffix, the new suffix in place of the previous one, and the
\* names before it in the sequence exist.
C2_ScanName ==
    mPc = "scan" =>
        LET base == Root(args.in_file)
        IN /\ SuffixForm(csv_file, base)
           /\ index = 0 => csv_file = base \o <<".csv">>
           /\ index > 0 => csv_file = base \o <<"_">> \o LowDigits(index - 1, 3) \o <<".csv">>
           /\ index > 0 => Exists(base \o <<".csv">>)
           /\ index > 1 => Exists(base \o <<"_">> \o LowDigits(index - 2, 3) \o <<".csv">>)

\* C7: an invocation that was given no output path never overwrites an
\* artifact an earlier invocation created.
C7_NoOverwrite ==
    (lastSave.run > 0 /\ ~lastSave.explicit) => lastSave.replaced = 0

\* C11: every invocation of main ends with exit code 0 or 1, 0 exactly when
\* it produced the map artifact and 1 on every failure, a rejected command
\* line included.
C11_ExitCodes ==
    (mPc = "shell" /\ runs > 0) =>
        /\ exitCode \in {0, 1}
        /\ (exitCode = 0) = (lastSave.run = runs)

(***************************************************************************)
(* The ingestion endpoint: do_POST of MyHTTPRequestHandler.                *)
(***************************************************************************)
\* Most requests handled, and the last second of the clock.
MaxRequests == 3

MaxClock == 1

\* f"{DIR_RECEIVED_FILES}/data_{timestamp_str}.json", ...csv, and
\* f"{DIR_CREATED_FILES}/map_{timestamp_str}.html", by the second of the clock.
RawPath(t) == <<"received_data/data_", t, ".json">>

CsvPath(t) == <<"received_data/data_", t, ".csv">>

MapPath(t) == <<"created_maps/map_", t, ".html">>

NoPath == <<>>

\* Request bodies: no JSON, an array, an object without "data", and objects
\* whose "data" is empty, valid, without a valid entry, or holds an element
\* that is no object.
Bodies ==
    {[kind |-> "malformed"], [kind |-> "list"], [kind |-> "nodata"],
     [kind |-> "batch", data |-> <<>>],
     [kind |-> "batch", data |-> <<EntryGood1, EntryGood2>>],
     [kind |-> "batch", data |-> <<EntryNullLat>>],
     [kind |-> "batch", data |-> <<EntryGood1, EntryNoObject>>]}

\* payload.get('data', []) of a payload that is an object.
PayloadData(body) == IF body.kind = "batch" THEN body.data ELSE <<>>

NoRequest ==
    [path |-> "", responses |-> 0, status |-> 0, uncaught |-> FALSE, failure |-> "none",
     received |-> NoPath, map |-> NoPath, raw |-> NoPath, csv |-> NoPath,
     stored |-> FALSE, rendered |-> FALSE, empty |-> FALSE, replaced |-> {}]

ServerIdle == now = 0 /\ store = <<>> /\ served = 0 /\ last = NoRequest

ServerInit == now = 0 /\ store = <<>> /\ served = 0 /\ last = NoRequest

\* The files under received_data once the request has written paths.
Written(paths, ok) ==
    [p \in DOMAIN store \cup paths |->
        IF p \in paths THEN [by |-> served + 1, kept |-> ok] ELSE store[p]]

\* The files of earlier successful requests among paths.
Replaced(paths) == {p \in paths \cap DOMAIN store : store[p].kept}

\* What the handler did: NoRequest with the given fields set.
Answer(path, status, failure, fields) ==
    [f \in DOMAIN NoRequest |->
        IF f \in DOMAIN fields THEN fields[f]
        ELSE IF f = "path" THEN path
        ELSE IF f = "status" THEN status
        ELSE IF f = "responses" THEN IF status = 0 THEN 0 ELSE 1
        ELSE IF f = "uncaught" THEN status = 0
        ELSE IF f = "failure" THEN failure
        ELSE NoRequest[f]]

\* do_POST.  length_ok: the Content-Length header is a number; raw_ok: the raw
\* payload could be written; run: how subprocess.run ended ("timeout", or
\* "saved" / "unsaved" for whether the converter's m.save wrote the map).
DoPost(path, length_ok, body, raw_ok, run) ==
    /\ served < MaxRequests
    /\ served' = served + 1
    /\ now' = now
    /\ LET rows == PayloadData(body)
           both == [raw |-> RawPath(now), csv |-> CsvPath(now), stored |-> TRUE]
           code == ConverterExit(TabularFile(EncodeRows(rows)), run = "saved")
           json == body.kind \notin {"malformed", "list"}
       IN CASE path /= "/data_collector" ->
                 /\ last' = Answer(path, 404, "none", <<>>)
                 /\ store' = store
            [] path = "/data_collector" /\ ~length_ok ->
                 \* line 66: int() raises outside the try
                 /\ last' = Answer(path, 0, "header", <<>>)
                 /\ store' = store
            [] path = "/data_collector" /\ length_ok /\ ~json ->
                 \* lines 76-77 raise
                 /\ last' = Answer(path, 500, "payload", <<>>)
                 /\ store' = store
            [] path = "/data_collector" /\ length_ok /\ json /\ ~raw_ok ->
                 \* lines 83-84 raise
                 /\ last' = Answer(path, 500, "store", <<>>)
                 /\ store' = store
            [] path = "/data_collector" /\ length_ok /\ json /\ raw_ok /\ rows = <<>> ->
                 \* line 89: no data, neither a tabular file nor a map
                 /\ last' = Answer(path, 200, "none",
                                   [raw |-> RawPath(now), stored |-> TRUE,
                                    received |-> RawPath(now), empty |-> TRUE,
                                    replaced |-> Replaced({RawPath(now)})])
                 /\ store' = Written({RawPath(now)}, TRUE)
            [] path = "/data_collector" /\ length_ok /\ json /\ raw_ok /\ rows /= <<>>
                 /\ ~AllObjects(rows) ->
                 \* lines 95-99 raise on the element that is no object
                 /\ last' = Answer(path, 500, "payload", both)
                 /\ store' = Written({RawPath(now), CsvPath(now)}, FALSE)
            [] path = "/data_collector" /\ length_ok /\ json /\ raw_ok /\ rows /= <<>>
                 /\ AllObjects(rows) /\ run = "timeout" ->
                 \* line 106 raises subprocess.TimeoutExpired
                 /\ last' = Answer(path, 500, "timeout", both)
                 /\ store' = Written({RawPath(now), CsvPath(now)}, FALSE)
            [] path = "/data_collector" /\ length_ok /\ json /\ raw_ok /\ rows /= <<>>
                 /\ AllObjects(rows) /\ run /= "timeout" ->
                 /\ last' = Answer(path, 200, IF code = 0 THEN "none" ELSE "render",
                                   [raw |-> RawPath(now), csv |-> CsvPath(now),
                                    stored |-> TRUE, received |-> RawPath(now),
                                    map |-> IF code = 0 THEN MapPath(now) ELSE NoPath,
                                    rendered |-> (code = 0),
                                    replaced |-> Replaced({RawPath(now), CsvPath(now)})])
                 /\ store' = Written({RawPath(now), CsvPath(now)}, TRUE)
    /\ UNCHANGED <<codecVars, placeVars, mainVars>>

\* A second passes on the wall clock.
Tick ==
    /\ now < MaxClock
    /\ now' = now + 1
    /\ UNCHANGED <<store, served, last>>
    /\ UNCHANGED <<codecVars, placeVars, mainVars>>

ServerNext ==
    \/ \E path \in {"/data_collector", "/other"}, length_ok \in BOOLEAN, body \in Bodies,
          raw_ok \in BOOLEAN, run \in {"saved", "unsaved", "timeout"} :
          DoPost(path, length_ok, body, raw_ok, run)
    \/ Tick

(***************************************************************************)
(* Claims about the ingestion endpoint.                                    *)
(***************************************************************************)
\* C5: every POST to /data_collector ends with exactly one response and no
\* uncaught exception; a success response is sent only when the batch was
\* stored and rendered, without a map only when the batch was empty; every
\* failure (malformed payload, store, render, timeout) gets a non-2xx status.
C5_Responses ==
    (served > 0 /\ last.path = "/data_collector") =>
        /\ last.responses = 1
        /\ ~last.uncaught
        /\ last.status \in 200..299 =>
              /\ last.stored
              /\ last.received = last.raw
              /\ last.map = NoPath => last.empty
              /\ last.map /= NoPath => last.rendered
        /\ last.failure /= "none" => last.status \notin 200..299

\* C6: no successful ingestion call writes a raw or tabular path that an
\* earlier successful call wrote, the calls of one clock second included.
C6_UniquePair ==
    (served > 0 /\ last.status = 200) => last.replaced = {}

(***************************************************************************)
(* The specifications: each part of the program runs on its own, the       *)
(* others at rest.                                                         *)
(***************************************************************************)
InitCodec == CodecInit /\ PlaceIdle /\ MainIdle /\ ServerIdle

SpecCodec == InitCodec /\ [][CodecNext]_vars

InitPlace == CodecIdle /\ PlaceInit /\ MainIdle /\ ServerIdle

SpecPlace == InitPlace /\ [][PlaceNext]_vars

InitMain == CodecIdle /\ PlaceIdle /\ MainInit /\ ServerIdle

SpecMain == InitMain /\ [][MainNext]_vars

InitServer == CodecIdle /\ PlaceIdle /\ MainIdle /\ ServerInit

SpecServer == InitServer /\ [][ServerNext]_vars

====
